---- MODULE Spec2Model ----
(***************************************************************************)
(* Verification model of the veterinary booking back end:                  *)
(*   backend/scheduler/solver.py   find_available_slots (CP-SAT model,     *)
(*                                 solution callback, dedup, sort)         *)
(*   backend/scheduler/ranker.py   rank_slots_with_llm                     *)
(*   backend/api.py                find_appointment, book_appointment      *)
(*   backend/app/main.py, crud.py  find_slots, book_appointment            *)
(*                                                                         *)
(* Times of day are Time records [hour, minute]; the 'HH:MM' strings the   *)
(* solver emits are sequences of four decimal digits compared the way      *)
(* Python compares strings (lexicographically).                            *)
(***************************************************************************)
EXTENDS Integers, Sequences, FiniteSets, TLC

VARIABLES
    vets,                   \* solver input: list of Vet rows
    rooms,                  \* solver input: list of Room rows
    existing_appointments,  \* solver input: list of Appointment rows of the day
    pc,                     \* position inside find_available_slots
    pending,                \* solutions the CP-SAT search has not reached yet
    solutions,              \* AllSolutionsCallback.solutions
    unique_solutions,       \* the list find_available_slots returns
    feasible_slots,         \* ranker input: the slot list to rank
    llm_response,           \* ranker: what the POST to Ollama returned
    rank_pc,                \* position inside rank_slots_with_llm
    rank_result,            \* ranker: [raised, value] the call ended with
    appointments,           \* api.py: rows of table 'appointments'
    clients,                \* api.py: number of rows of table 'clients'
    session,                \* per user, the request being handled
    response,               \* per user, the last HTTP response
    ranked_slot_rows,       \* app/main.py: rows of table 'ranked_slots'
    assignment,             \* the solution the search is at, when it is
                            \* followed solution by solution
    callbacks               \* calls of on_solution_callback so far

solverVars == <<vets, rooms, existing_appointments, pc, pending, solutions,
                unique_solutions>>

rankerVars == <<feasible_slots, llm_response, rank_pc, rank_result>>

apiVars == <<appointments, clients, session, response, ranked_slot_rows>>

searchVars == <<assignment, callbacks>>

vars == <<solverVars, rankerVars, apiVars, searchVars>>

----------------------------------------------------------------------------
(* Values of the variables of a component that is not running *)

NoResponse == [shape |-> "none", top_3_indices |-> <<>>]
NoResult == [raised |-> "pending", value |-> <<>>]

RankerIdle ==
    /\ feasible_slots = <<>>
    /\ llm_response = NoResponse
    /\ rank_pc = "idle"
    /\ rank_result = NoResult

NoRequest == [pc |-> "idle", duration |-> 0, new_appointment |-> <<>>]
NoReply == [to |-> "none", status |-> 0, code |-> "none", slots |-> <<>>,
            duration |-> 0]

ApiIdle ==
    /\ appointments = <<>>
    /\ clients = 0
    /\ session = <<>>
    /\ response = <<>>
    /\ ranked_slot_rows = <<>>

SearchIdle ==
    /\ assignment = <<>>
    /\ callbacks = 0

SolverIdle ==
    /\ SearchIdle
    /\ vets = <<>>
    /\ rooms = <<>>
    /\ existing_appointments = <<>>
    /\ pc = "idle"
    /\ pending = {}
    /\ solutions = <<>>
    /\ unique_solutions = <<>>

----------------------------------------------------------------------------
(* Bounds of the model *)

\* vets are rows 1..n with n <= MaxVets, rooms likewise
MaxVets == 2
MaxRooms == 2
\* number of existing appointments handed to one solve
MaxAppts == 2
\* only days whose CP-SAT model has at most this many solutions are explored
MaxSolutions == 7
\* length of the slot list handed to the ranker
MaxSlots == 3
\* length of the top_3_indices list the LLM answers with
MaxIndices == 3
\* users with a request in flight at the same time
MaxUsers == 2
\* book-appointment requests started in one run
MaxBookings == 2
\* length of the ranked list the model of app/main.py answers with
MaxRanked == 2

----------------------------------------------------------------------------
(* Program constants: solver.py *)

day_start_min == 9 * 60
day_end_min == 17 * 60
appointment_duration == 30
\* step of possible_starts, "Check every 15 mins"
possible_starts_step == 15
\* datetime arithmetic wraps at midnight when .time() is taken
MinutesPerDay == 24 * 60

----------------------------------------------------------------------------
(* datetime.time values and their conversions *)

Time(h, m) == [hour |-> h, minute |-> m]

\* appt.start_time.hour * 60 + appt.start_time.minute
ToMinutes(t) == t.hour * 60 + t.minute

\* time(hour=start_min // 60, minute=start_min % 60)
start_time_obj(start_min) == Time(start_min \div 60, start_min % 60)

\* (datetime.combine(today, start_time_obj) + timedelta(minutes=d)).time()
PlusMinutes(t, d) ==
    LET total == (ToMinutes(t) + d) % MinutesPerDay
    IN  Time(total \div 60, total % 60)

end_time_obj(start_min) == PlusMinutes(start_time_obj(start_min), appointment_duration)

\* t.strftime('%H:%M'): two zero-padded decimal fields
strftime_HM(t) ==
    <<t.hour \div 10, t.hour % 10, t.minute \div 10, t.minute % 10>>

\* Python's str < str on two 'HH:MM' strings
StrLess(a, b) ==
    \E i \in 1..4 : a[i] < b[i] /\ \A j \in 1..(i - 1) : a[j] = b[j]

\* reading an 'HH:MM' string back as minutes from midnight
ParseHM(s) == (s[1] * 10 + s[2]) * 60 + s[3] * 10 + s[4]

Range(s) == {s[i] : i \in DOMAIN s}

----------------------------------------------------------------------------
(* find_available_slots: the CP-SAT model *)

vet_ids == [i \in DOMAIN vets |-> vets[i].id]
room_ids == [i \in DOMAIN rooms |-> rooms[i].id]

\* start_min, end_min and duration of an existing appointment
appt_start_min(appt) == ToMinutes(appt.start_time)
appt_end_min(appt) == ToMinutes(appt.end_time)
appt_duration(appt) == appt_end_min(appt) - appt_start_min(appt)

\* vet_intervals[appt.vet_id].append(...) raises KeyError for an id that is
\* not a key of the dict, room_intervals[appt.room_id] likewise
RaisesKeyError ==
    \E i \in DOMAIN existing_appointments :
        \/ existing_appointments[i].vet_id \notin Range(vet_ids)
        \/ existing_appointments[i].room_id \notin Range(room_ids)

\* a grid that runs to the end of the day without leaving room for the slot
possible_starts_to_day_end ==
    LET n == (day_end_min + 1 - day_start_min + possible_starts_step - 1)
                 \div possible_starts_step
    IN  [i \in 1..n |-> day_start_min + (i - 1) * possible_starts_step]

\* a grid whose stop leaves out the last start of the day
possible_starts_last_excluded ==
    LET stop == day_end_min - appointment_duration
        n == IF stop > day_start_min
             THEN (stop - day_start_min + possible_starts_step - 1)
                      \div possible_starts_step
             ELSE 0
    IN  [i \in 1..n |-> day_start_min + (i - 1) * possible_starts_step]

\* range(day_start_min, day_end_min - appointment_duration + 1, 15)
possible_starts ==
    LET stop == day_end_min - appointment_duration + 1
        n == IF stop > day_start_min
             THEN (stop - day_start_min + possible_starts_step - 1)
                      \div possible_starts_step
             ELSE 0
    IN  [i \in 1..n |-> day_start_min + (i - 1) * possible_starts_step]

\* potential_slots: one (literal, v_id, r_id, start_min) per start, vet, room,
\* in the order of the three nested loops
potential_slots ==
    LET nv == Len(vet_ids)
        nr == Len(room_ids)
        n == Len(possible_starts) * nv * nr
    IN  [k \in 1..n |->
            [vet_id    |-> vet_ids[(((k - 1) \div nr) % nv) + 1],
             room_id   |-> room_ids[((k - 1) % nr) + 1],
             start_min |-> possible_starts[((k - 1) \div (nr * nv)) + 1]]]

\* NewIntervalVar(start_min, duration, start_min + duration, name)
FixedInterval(i) ==
    [name  |-> <<0, i, 0, 0>>,
     start |-> appt_start_min(existing_appointments[i]),
     size  |-> appt_duration(existing_appointments[i])]

\* an optional interval whose size is the grid step, not the slot's length
OptionalInterval_step_size(slot) ==
    [name  |-> <<1, slot.vet_id, slot.room_id, slot.start_min>>,
     start |-> slot.start_min,
     size  |-> possible_starts_step]

\* NewOptionalIntervalVar(start_min, appointment_duration, ..., literal, name)
OptionalInterval(slot) ==
    [name  |-> <<1, slot.vet_id, slot.room_id, slot.start_min>>,
     start |-> slot.start_min,
     size  |-> appointment_duration]

\* vet_intervals[v_id] with the optional intervals whose literal is true in S
vet_intervals(v_id, S) ==
    {FixedInterval(i) : i \in {j \in DOMAIN existing_appointments :
                                  existing_appointments[j].vet_id = v_id}}
    \cup {OptionalInterval(slot) : slot \in {c \in S : c.vet_id = v_id}}

room_intervals(r_id, S) ==
    {FixedInterval(i) : i \in {j \in DOMAIN existing_appointments :
                                  existing_appointments[j].room_id = r_id}}
    \cup {OptionalInterval(slot) : slot \in {c \in S : c.room_id = r_id}}

\* a no_overlap that treats intervals as closed: touching intervals conflict
NoOverlap_closed_intervals(intervals) ==
    \A x, y \in intervals :
        x # y => (x.start + x.size < y.start \/ y.start + y.size < x.start)

\* CP-SAT's no_overlap: the present intervals can be put in a sequence with
\* end_i <= start_(i+1); intervals of size zero count
NoOverlap(intervals) ==
    \A x, y \in intervals :
        x # y => (x.start + x.size <= y.start \/ y.start + y.size <= x.start)

\* a performed interval of negative size makes the model invalid (or, with
\* start + size = end enforced, infeasible): the solve ends without a solution
ModelValid ==
    \A i \in DOMAIN existing_appointments : FixedInterval(i).size >= 0

\* each selected slot satisfies the constraints on its own: nothing keeps
\* two selected slots of one vet or one room off each other
IsSolution_each_alone(S) ==
    /\ ModelValid
    /\ \A T \in {{}} \cup {{c} : c \in S} :
        /\ \A v_id \in Range(vet_ids) : NoOverlap(vet_intervals(v_id, T))
        /\ \A r_id \in Range(room_ids) : NoOverlap(room_intervals(r_id, T))

\* S, the set of slots whose literal is true, satisfies every constraint
IsSolution(S) ==
    /\ ModelValid
    /\ \A v_id \in Range(vet_ids) : NoOverlap(vet_intervals(v_id, S))
    /\ \A r_id \in Range(room_ids) : NoOverlap(room_intervals(r_id, S))

\* slots that some solution selects; NoOverlap of a set implies NoOverlap of
\* its subsets, so a slot outside this set is in no solution
Selectable ==
    IF IsSolution({})
    THEN {c \in Range(potential_slots) : IsSolution({c})}
    ELSE {}

\* every assignment solver.Solve visits with enumerate_all_solutions
Solutions == {S \in SUBSET Selectable : IsSolution(S)}

----------------------------------------------------------------------------
(* find_available_slots: callback and result assembly *)

\* the dict on_solution_callback appends for one selected slot
SlotDict(slot) ==
    [vet_id     |-> slot.vet_id,
     room_id    |-> slot.room_id,
     start_time |-> strftime_HM(start_time_obj(slot.start_min)),
     end_time   |-> strftime_HM(end_time_obj(slot.start_min))]

\* on_solution_callback: the selected slots, in the order of potential_slots
on_solution_callback(S) ==
    LET chosen == SelectSeq(potential_slots, LAMBDA c : c \in S)
    IN  [i \in DOMAIN chosen |-> SlotDict(chosen[i])]

\* a dedup key that names the vet and the room instead of the time span
slot_key_vet_room(sol) == <<sol.vet_id, sol.room_id>>

slot_key(sol) == <<sol.start_time, sol.end_time>>

\* a dedup that keeps every tuple
remove_duplicates_keep_all(sols) == sols

\* a dedup that keeps the last tuple of each slot_key instead of the first
remove_duplicates_last_wins(sols) ==
    LET last(i) == \A j \in (i + 1)..Len(sols) : slot_key(sols[j]) # slot_key(sols[i])
        keep == {i \in DOMAIN sols : last(i)}
        nth(k) == CHOOSE i \in keep : Cardinality({j \in keep : j < i}) = k - 1
    IN  [k \in 1..Cardinality(keep) |-> sols[nth(k)]]

\* lines 122-129: the loop over solution_callback.solutions appends a slot
\* when its slot_key is not in seen_slots, that is when no earlier slot of the
\* list has the same slot_key
remove_duplicates(sols) ==
    LET indices == [i \in DOMAIN sols |-> i]
        unseen(i) == \A j \in 1..(i - 1) : slot_key(sols[j]) # slot_key(sols[i])
        kept == SelectSeq(indices, unseen)
    IN  [k \in DOMAIN kept |-> sols[kept[k]]]

\* a result that is returned in the order of collection
sort_by_start_time_skipped(sols) == sols

\* line 132: unique_solutions.sort(key=lambda x: x['start_time']), a stable
\* sort on the 'HH:MM' string: slots of equal start_time keep their order
sort_by_start_time(sols) ==
    LET before(i, j) ==
            \/ StrLess(sols[i].start_time, sols[j].start_time)
            \/ /\ ~StrLess(sols[j].start_time, sols[i].start_time)
               /\ i < j
        rank == [i \in DOMAIN sols |->
                    Cardinality({j \in DOMAIN sols : before(j, i)}) + 1]
    IN  [k \in DOMAIN sols |-> sols[CHOOSE i \in DOMAIN sols : rank[i] = k]]

\* lines 122-134: dedup, sort, return
AssembleResult(sols) == sort_by_start_time(remove_duplicates(sols))

----------------------------------------------------------------------------
(* Inputs of a solve *)

VetRows(n) == [i \in 1..n |-> [id |-> i]]
RoomRows(n) == [i \in 1..n |-> [id |-> i]]

\* the time spans existing appointments are drawn from
SpanPool ==
    { <<Time(9, 0), Time(9, 30)>>,      \* first slot of the day
      <<Time(9, 30), Time(17, 0)>>,     \* the rest of the day
      <<Time(9, 0), Time(16, 15)>>,     \* all but the last two starts
      <<Time(9, 0), Time(16, 0)>>,      \* all but the last three starts
      <<Time(9, 10), Time(9, 10)>>,     \* empty span
      <<Time(23, 45), Time(0, 15)>> }   \* end before start

\* book_appointment stores any vet_id and room_id of the form
BookedVetIds == {1, 2}
BookedRoomIds == {1, 2}

AppointmentPool ==
    {[vet_id |-> v, room_id |-> r, start_time |-> sp[1], end_time |-> sp[2]] :
        v \in BookedVetIds, r \in BookedRoomIds, sp \in SpanPool}

\* the appointments of a set as a list with ids 1..n
RECURSIVE AsList(_)
AsList(A) ==
    IF A = {} THEN <<>>
    ELSE LET a == CHOOSE x \in A : TRUE
             rest == AsList(A \ {a})
         IN  Append(rest, a)

AppointmentLists ==
    {AsList(A) : A \in {B \in SUBSET AppointmentPool : Cardinality(B) <= MaxAppts}}

\* the starts at which the first vet and the first room can be selected
FirstPairStarts ==
    {t \in Range(possible_starts) :
        IsSolution({[vet_id |-> vet_ids[1], room_id |-> room_ids[1],
                     start_min |-> t]})}

\* the enumeration is finite in the code and small enough to explore here:
\* at most MaxSolutions solutions (the first two conjuncts follow from the
\* last and are evaluated first)
Explorable ==
    IF IsSolution({})
    THEN /\ (vets # <<>> /\ rooms # <<>>) => Cardinality(FirstPairStarts) < MaxSolutions
         /\ LET selectable == Selectable
            IN  /\ Cardinality(selectable) < MaxSolutions
                /\ Cardinality({S \in SUBSET selectable : IsSolution(S)}) <= MaxSolutions
    ELSE TRUE

----------------------------------------------------------------------------
(* Specification of one call of find_available_slots *)

SolverInit ==
    /\ vets \in {VetRows(n) : n \in 0..MaxVets}
    /\ rooms \in {RoomRows(n) : n \in 0..MaxRooms}
    /\ existing_appointments \in AppointmentLists
    /\ IF RaisesKeyError THEN TRUE ELSE Explorable
    /\ pc = "build"
    /\ pending = {}
    /\ solutions = <<>>
    /\ unique_solutions = <<>>
    /\ SearchIdle
    /\ RankerIdle
    /\ ApiIdle

\* lines 21-94: build the model and start the search; a KeyError in the
\* loop over existing_appointments leaves the function
BuildModel ==
    /\ pc = "build"
    /\ IF RaisesKeyError
       THEN pc' = "KeyError" /\ pending' = pending
       ELSE pc' = "solve" /\ pending' = Solutions
    /\ UNCHANGED <<vets, rooms, existing_appointments, solutions,
                   unique_solutions, rankerVars, apiVars, searchVars>>

\* solver.Solve(model, solution_callback) reaches one more solution and
\* calls on_solution_callback; the order of the search is the solver's
OnSolutionCallback ==
    /\ pc = "solve"
    /\ \E S \in pending :
        /\ pending' = pending \ {S}
        /\ solutions' = solutions \o on_solution_callback(S)
    /\ UNCHANGED <<vets, rooms, existing_appointments, pc, unique_solutions,
                   rankerVars, apiVars, searchVars>>

\* Solve has reached every solution: lines 122-134
ReturnSlots ==
    /\ pc = "solve"
    /\ pending = {}
    /\ unique_solutions' = AssembleResult(solutions)
    /\ pc' = "return"
    /\ UNCHANGED <<vets, rooms, existing_appointments, pending, solutions,
                   rankerVars, apiVars, searchVars>>

SolverNext == BuildModel \/ OnSolutionCallback \/ ReturnSlots

Spec == SolverInit /\ [][SolverNext]_vars

----------------------------------------------------------------------------
(* One call of find_available_slots on any day, the search taken as a whole *)

\* A day with a free vet and a free room has millions of solutions.  Of
\* solution_callback.solutions only the first tuple of each slot_key reaches
\* the result (RemoveDuplicates skips the rest), and every selectable slot is
\* collected, since it is a solution on its own.  Here `solutions` holds the
\* first occurrences of the collected tuples, in one of two orders the search
\* can produce: the order of potential_slots, or its reverse.
Reversed(s) == [i \in DOMAIN s |-> s[Len(s) + 1 - i]]

FirstOccurrences ==
    LET selectable == Selectable
        chosen == SelectSeq(potential_slots, LAMBDA c : c \in selectable)
    IN  [i \in DOMAIN chosen |-> SlotDict(chosen[i])]

DayInit ==
    /\ vets \in {VetRows(n) : n \in 0..MaxVets}
    /\ rooms \in {RoomRows(n) : n \in 0..MaxRooms}
    /\ existing_appointments \in AppointmentLists
    /\ pc = "build"
    /\ pending = {}
    /\ solutions = <<>>
    /\ unique_solutions = <<>>
    /\ SearchIdle
    /\ RankerIdle
    /\ ApiIdle

\* lines 21-94: build the model; a KeyError in the loop over
\* existing_appointments leaves the function
DayBuildModel ==
    /\ pc = "build"
    /\ pc' = IF RaisesKeyError THEN "KeyError" ELSE "search"
    /\ UNCHANGED <<vets, rooms, existing_appointments, pending, solutions,
                   unique_solutions, rankerVars, apiVars, searchVars>>

\* lines 118-120: solver.Solve runs until no solution is pending
DaySolve ==
    /\ pc = "search"
    /\ LET first == FirstOccurrences
       IN  solutions' \in {first, Reversed(first)}
    /\ pc' = "solve"
    /\ UNCHANGED <<vets, rooms, existing_appointments, pending,
                   unique_solutions, rankerVars, apiVars, searchVars>>

\* ReturnSlots: lines 122-134
DayNext == DayBuildModel \/ DaySolve \/ ReturnSlots

DaySpec == DayInit /\ [][DayNext]_vars

----------------------------------------------------------------------------
(* One call of find_available_slots, the search followed solution by       *)
(* solution in depth-first order                                           *)

Min(S) == CHOOSE x \in S : \A y \in S : x <= y
Max(S) == CHOOSE x \in S : \A y \in S : x >= y

\* (#grid points) x (#vets) x (#rooms): the number of potential_slots
SlotProduct == Len(possible_starts) * Len(vet_ids) * Len(room_ids)

\* the slots whose literal is true, for a set A of indices of potential_slots
SlotsAt(A) == {potential_slots[k] : k \in A}

\* the literals from index `from` on that can be set on top of A
Extensions(A, from) ==
    {j \in from..Len(potential_slots) : IsSolution(SlotsAt(A \cup {j}))}

\* the last literal of A is reset and the next one that fits is set
RECURSIVE Backtrack(_)
Backtrack(A) ==
    IF A = {} THEN {}
    ELSE LET m == Max(A)
             B == A \ {m}
             ext == Extensions(B, m + 1)
         IN  IF ext # {} THEN {B \cup {Min(ext)}} ELSE Backtrack(B)

\* the solution a depth-first search reaches after `assignment`, if any; the
\* search starts at the assignment with every literal false.  Every solution
\* is reached exactly once, so the number of callbacks does not depend on
\* the order chosen here.
NextSolutions ==
    IF assignment = <<>>
    THEN IF IsSolution({}) THEN {{}} ELSE {}
    ELSE LET A == assignment[1]
             ext == Extensions(A, IF A = {} THEN 1 ELSE Max(A) + 1)
         IN  IF ext # {} THEN {A \cup {Min(ext)}} ELSE Backtrack(A)

EnumInit ==
    /\ vets \in {VetRows(n) : n \in 0..MaxVets}
    /\ rooms \in {RoomRows(n) : n \in 0..MaxRooms}
    /\ existing_appointments \in AppointmentLists
    /\ pc = "build"
    /\ pending = {}
    /\ solutions = <<>>
    /\ unique_solutions = <<>>
    /\ SearchIdle
    /\ RankerIdle
    /\ ApiIdle

\* lines 21-94
EnumBuildModel ==
    /\ pc = "build"
    /\ pc' = IF RaisesKeyError THEN "KeyError" ELSE "search"
    /\ UNCHANGED <<vets, rooms, existing_appointments, pending, solutions,
                   unique_solutions, rankerVars, apiVars, searchVars>>

\* solver.Solve reaches the next solution and calls on_solution_callback;
\* the search is followed until the callbacks outnumber the potential slots
EnumCallback ==
    /\ pc = "search"
    /\ callbacks <= SlotProduct
    /\ \E A \in NextSolutions :
        /\ assignment' = <<A>>
        /\ solutions' = solutions \o on_solution_callback(SlotsAt(A))
    /\ callbacks' = callbacks + 1
    /\ UNCHANGED <<vets, rooms, existing_appointments, pc, pending,
                   unique_solutions, rankerVars, apiVars>>

\* no solution is left: lines 122-134
EnumReturn ==
    /\ pc = "search"
    /\ NextSolutions = {}
    /\ unique_solutions' = AssembleResult(solutions)
    /\ pc' = "return"
    /\ UNCHANGED <<vets, rooms, existing_appointments, pending, solutions,
                   rankerVars, apiVars, searchVars>>

EnumNext == EnumBuildModel \/ EnumCallback \/ EnumReturn

EnumSpec == EnumInit /\ [][EnumNext]_vars

----------------------------------------------------------------------------
(* rank_slots_with_llm: ranker.py *)

\* requests.post / raise_for_status failures, all RequestException subclasses
RequestExceptions == {"Timeout", "ConnectionError", "HTTPError"}

\* what the body of a 200 answer can look like, from the outside in:
\*   body_not_json      response.json() cannot decode the body
\*   body_not_object    the body is JSON but not an object
\*   response_missing   the object has no 'response' field
\*   response_not_str   'response' is not a string
\*   text_not_json      'response' is a string that is not JSON
\*   text_not_object    'response' is JSON but not an object
\*   key_missing        the object has no 'top_3_indices'
\*   indices_not_list   'top_3_indices' is not a list
\*   indices_list       'top_3_indices' is the list in top_3_indices
ResponseShapes ==
    {"body_not_json", "body_not_object", "response_missing", "response_not_str",
     "text_not_json", "text_not_object", "key_missing", "indices_not_list"}

\* one element of the JSON list: an integer, a float with an integral value,
\* a string or null
IndexEntries ==
    [type : {"int"}, val : (-1)..(MaxSlots + 1)]
    \cup [type : {"float"}, val : {1}]
    \cup [type : {"str", "null"}, val : {0}]

RECURSIVE ListsUpTo(_, _)
ListsUpTo(S, n) ==
    IF n = 0 THEN {<<>>}
    ELSE LET shorter == ListsUpTo(S, n - 1)
         IN  shorter \cup {Append(l, x) : l \in {m \in shorter : Len(m) = n - 1}, x \in S}

LLMResponses ==
    {[shape |-> sh, top_3_indices |-> <<>>] : sh \in ResponseShapes}
    \cup {[shape |-> "indices_list", top_3_indices |-> l] :
             l \in ListsUpTo(IndexEntries, MaxIndices)}

\* `0 < i <= len(feasible_slots)` and `feasible_slots[i-1]` raise TypeError
\* for a string or None, and for a float that passes the range test
EntryRaisesTypeError(e, n) ==
    \/ e.type \in {"str", "null"}
    \/ e.type = "float" /\ 0 < e.val /\ e.val <= n

\* line 85: [feasible_slots[i-1] for i in top_indices if 0 < i <= len(feasible_slots)]
ranked_slots(slots, top_indices) ==
    LET n == Len(slots)
        picked == SelectSeq(top_indices, LAMBDA e : 0 < e.val /\ e.val <= n)
    IN  [k \in DOMAIN picked |-> slots[picked[k].val]]

Returns(value) == [raised |-> "none", value |-> value]
Raises(exception) == [raised |-> exception, value |-> <<>>]

\* lines 72-95: what rank_slots_with_llm does with a 200 answer.
\* response.json() failing is a RequestException or a JSONDecodeError and
\* json.loads failing is a JSONDecodeError: both are caught and fall back.
\* AttributeError (.get on a list, a number, ...) and TypeError are not caught.
parse_response(slots, resp) ==
    CASE resp.shape \in {"body_not_json", "text_not_json"} -> Returns(slots)
      [] resp.shape \in {"body_not_object", "text_not_object"} -> Raises("AttributeError")
      [] resp.shape = "response_not_str" -> Raises("TypeError")
      [] resp.shape \in {"response_missing", "key_missing", "indices_not_list"} ->
            Returns(slots)
      [] OTHER ->
            IF resp.top_3_indices = <<>>
            THEN Returns(slots)
            ELSE IF \E k \in DOMAIN resp.top_3_indices :
                        EntryRaisesTypeError(resp.top_3_indices[k], Len(slots))
                 THEN Raises("TypeError")
                 ELSE Returns(ranked_slots(slots, resp.top_3_indices))

\* the slot lists handed to the ranker: the first n half-hour slots of vet 1
FeasibleSlotLists ==
    {[i \in 1..n |-> SlotDict([vet_id |-> 1, room_id |-> 1,
                               start_min |-> day_start_min
                                             + (i - 1) * appointment_duration])] :
        n \in 0..MaxSlots}

RankerInit ==
    /\ SolverIdle
    /\ ApiIdle
    /\ feasible_slots \in FeasibleSlotLists
    /\ llm_response = NoResponse
    /\ rank_pc = "call"
    /\ rank_result = NoResult

\* lines 27-28: nothing to rank
RankNothing ==
    /\ rank_pc = "call"
    /\ feasible_slots = <<>>
    /\ rank_result' = Returns(<<>>)
    /\ rank_pc' = "done"
    /\ UNCHANGED <<feasible_slots, llm_response, solverVars, apiVars, searchVars>>

\* lines 68-70 and 88-91: the POST or raise_for_status raises
PostFails ==
    /\ rank_pc = "call"
    /\ feasible_slots # <<>>
    /\ \E e \in RequestExceptions :
        llm_response' = [shape |-> e, top_3_indices |-> <<>>]
    /\ rank_result' = Returns(feasible_slots)
    /\ rank_pc' = "done"
    /\ UNCHANGED <<feasible_slots, solverVars, apiVars, searchVars>>

\* lines 68-70: the POST returns 200 with some body
PostAnswers ==
    /\ rank_pc = "call"
    /\ feasible_slots # <<>>
    /\ llm_response' \in LLMResponses
    /\ rank_pc' = "parse"
    /\ UNCHANGED <<feasible_slots, rank_result, solverVars, apiVars, searchVars>>

\* lines 72-95
ParseResponse ==
    /\ rank_pc = "parse"
    /\ rank_result' = parse_response(feasible_slots, llm_response)
    /\ rank_pc' = "done"
    /\ UNCHANGED <<feasible_slots, llm_response, solverVars, apiVars, searchVars>>

RankerNext == RankNothing \/ PostFails \/ PostAnswers \/ ParseResponse

RankerSpec == RankerInit /\ [][RankerNext]_vars

----------------------------------------------------------------------------
(* api.py: find_appointment and book_appointment *)

Users == 1..MaxUsers

\* def find_available_slots(appointment_date, vets, rooms, existing_appointments)
find_available_slots_params == 4
\* find_available_slots(appointment_date, vets, rooms, existing_appointments, duration)
find_available_slots_args == 5

\* a call with more positional arguments than the function has parameters
\* raises TypeError before the body runs
CallRaisesTypeError(args, params) == args > params

\* request.form of the two endpoints
Dates == {"2025-06-02", "2025-06-03"}
TimeStrings == {<<0, 9, 0, 0>>, <<0, 9, 1, 5>>, <<2, 3, 4, 5>>}
Durations == {30, 60, 1470}

\* duration_minutes of the configured appointment types (line 211), one of
\* them longer than the business day
TypeDurations == Durations \cup {600}

FindForms == [date : Dates, duration : TypeDurations]

BookForms ==
    [date : Dates, time : TimeStrings, duration_minutes : Durations,
     vet_id : 1..MaxVets, room_id : 1..MaxRooms]

\* datetime.strptime(time_str, '%H:%M').time()
strptime_HM(s) == Time(s[1] * 10 + s[2], s[3] * 10 + s[4])

\* session.query(Appointment).filter_by(date=appointment_date).all()
AppointmentsOn(date) ==
    SelectSeq(appointments, LAMBDA row : row.date = date)

\* lines 285-311: the Appointment row book_appointment adds to the session
NewAppointment(form) ==
    [date             |-> form.date,
     start_time       |-> strptime_HM(form.time),
     end_time         |-> PlusMinutes(strptime_HM(form.time), form.duration_minutes),
     duration_minutes |-> form.duration_minutes,
     vet_id           |-> form.vet_id,
     room_id          |-> form.room_id]

\* table 'appointments' has one constraint, the primary key id; commit
\* raises IntegrityError when the inserted row breaks a constraint
RaisesIntegrityError(row, table) ==
    \E i \in DOMAIN table : table[i].id = row.id

\* the id the database gives the inserted row
NextId(table) == Len(table) + 1

\* api_error(code, message, status) and the plain 200 answers
Reply(to, status, code, duration) ==
    [to |-> to, status |-> status, code |-> code, slots |-> <<>>,
     duration |-> duration]

ApiInit ==
    /\ SolverIdle
    /\ RankerIdle
    /\ appointments = <<>>
    /\ clients = 0
    /\ session = [u \in Users |-> NoRequest]
    /\ response = [u \in Users |-> NoReply]
    /\ ranked_slot_rows = <<>>

\* find_appointment, lines 196-262: the call of find_available_slots raises
\* TypeError and `except Exception` answers 500; a call that binds returns
\* slots of appointment_duration minutes whatever duration was passed
FindAppointment(u) ==
    /\ session[u].pc = "idle"
    /\ \E form \in FindForms :
        IF CallRaisesTypeError(find_available_slots_args, find_available_slots_params)
        THEN response' = [response EXCEPT ![u] =
                 Reply("find", 500, "FIND_APPOINTMENT_FAILED", form.duration)]
        ELSE \E slots \in FeasibleSlotLists :
                 response' = [response EXCEPT ![u] =
                     [Reply("find", 200, "Slots", form.duration)
                         EXCEPT !.slots = slots]]
    /\ UNCHANGED <<appointments, clients, session, ranked_slot_rows,
                   solverVars, rankerVars, searchVars>>

BookingsStarted ==
    Len(appointments) + Cardinality({u \in Users : session[u].pc = "commit"})

\* book_appointment, lines 269-312: read the form, add client and
\* appointment to this request's session
BookAppointmentAdd(u) ==
    /\ session[u].pc = "idle"
    /\ BookingsStarted < MaxBookings
    /\ \E form \in BookForms :
        session' = [session EXCEPT ![u] =
            [pc |-> "commit", duration |-> form.duration_minutes,
             new_appointment |-> NewAppointment(form)]]
    /\ UNCHANGED <<appointments, clients, response, ranked_slot_rows,
                   solverVars, rankerVars, searchVars>>

\* book_appointment, lines 313-328: session.commit() and the answer
BookAppointmentCommit(u) ==
    /\ session[u].pc = "commit"
    /\ LET row == [id |-> NextId(appointments)] @@ session[u].new_appointment
       IN  IF RaisesIntegrityError(row, appointments)
           THEN /\ response' = [response EXCEPT ![u] =
                       Reply("book", 409, "SLOT_TAKEN", session[u].duration)]
                /\ UNCHANGED <<appointments, clients>>
           ELSE /\ appointments' = Append(appointments, row)
                /\ clients' = clients + 1
                /\ response' = [response EXCEPT ![u] =
                       Reply("book", 200, "Booked", session[u].duration)]
    /\ session' = [session EXCEPT ![u] = NoRequest]
    /\ UNCHANGED <<ranked_slot_rows, solverVars, rankerVars, searchVars>>

ApiNext ==
    \E u \in Users :
        \/ FindAppointment(u)
        \/ BookAppointmentAdd(u)
        \/ BookAppointmentCommit(u)

ApiSpec == ApiInit /\ [][ApiNext]_vars

----------------------------------------------------------------------------
(* api.py and solver.py: bookings followed by a solve on the stored rows *)

\* session.query(Vet).all() and session.query(Room).all(): a practice with
\* one room
db_vets == VetRows(MaxVets)
db_rooms == RoomRows(1)

BookingInit == ApiInit

\* the rows booked here: every date, time and duration of the form, every
\* vet, in the room of the practice
BookedRows == {NewAppointment(form) : form \in {f \in BookForms : f.room_id = 1}}

\* what find_appointment reads from the database and hands to
\* find_available_slots (api.py 215-217): every vet, every room and the
\* appointments of the date.  A solve changes nothing in the database, so
\* the solves of a sequence of requests are each the solve that ends some
\* shorter sequence.
QueryDatabase(date) ==
    /\ pc = "idle"
    /\ \A u \in Users : session[u].pc = "idle"
    /\ vets' = db_vets
    /\ rooms' = db_rooms
    /\ existing_appointments' = AppointmentsOn(date)
    /\ pc' = "build"
    /\ UNCHANGED <<pending, solutions, unique_solutions, rankerVars, apiVars,
                   searchVars>>

\* the requests are served one after the other; the body of
\* find_available_slots is DayBuildModel, DaySolve and ReturnSlots
BookingNext ==
    \/ /\ pc = "idle"
       /\ BookAppointmentAdd(1)
       /\ session'[1].new_appointment \in BookedRows
    \/ pc = "idle" /\ BookAppointmentCommit(1)
    \/ \E date \in Dates : QueryDatabase(date)
    \/ DayBuildModel
    \/ DaySolve
    \/ ReturnSlots

BookingSpec == BookingInit /\ [][BookingNext]_vars

----------------------------------------------------------------------------
(* app/main.py and app/crud.py: find_slots and book_appointment *)

\* datetimes of today, in minutes after midnight
start_of_day == 9 * 60
end_of_day == 17 * 60
\* current_time += timedelta(minutes=15)
current_time_step == 15

\* crud.get_vets(db), crud.get_rooms(db): a practice of one vet and one room
main_vets == VetRows(1)
main_rooms == RoomRows(1)

\* crud.get_appointment_type(db, appointment_type_id).duration_minutes: the
\* table holds one type, the routine check-up
appointment_type_durations == {30}

\* lines 56-66: any(apt.vet_id == vet.id and not (slot_end_time <=
\* apt.start_time or current_time >= apt.end_time) for apt in ...)
is_vet_busy(vet_id, current_time, slot_end_time) ==
    \E i \in DOMAIN appointments :
        /\ appointments[i].vet_id = vet_id
        /\ ~(slot_end_time <= appointments[i].start_time
               \/ current_time >= appointments[i].end_time)

is_room_busy(room_id, current_time, slot_end_time) ==
    \E i \in DOMAIN appointments :
        /\ appointments[i].room_id = room_id
        /\ ~(slot_end_time <= appointments[i].start_time
               \/ current_time >= appointments[i].end_time)

\* lines 48-78: the while loop over current_time and the loops over vets and
\* rooms, for a positive duration
available_slots(duration) ==
    LET nv == Len(main_vets)
        nr == Len(main_rooms)
        nt == IF start_of_day + duration <= end_of_day
              THEN (end_of_day - duration - start_of_day) \div current_time_step + 1
              ELSE 0
        candidate(k) ==
            LET current_time == start_of_day
                                    + ((k - 1) \div (nr * nv)) * current_time_step
            IN  [start_time |-> current_time,
                 end_time   |-> current_time + duration,
                 vet_id     |-> main_vets[(((k - 1) \div nr) % nv) + 1].id,
                 room_id    |-> main_rooms[((k - 1) % nr) + 1].id]
        candidates == [k \in 1..(nt * nv * nr) |-> candidate(k)]
        free(c) == /\ ~is_vet_busy(c.vet_id, c.start_time, c.end_time)
                   /\ ~is_room_busy(c.room_id, c.start_time, c.end_time)
    IN  SelectSeq(candidates, free)

\* line 111: ranked_slots_data, the list the model answers with; here the
\* first slots of the prompt, in their order or reversed
RankedSlotsData(slots) ==
    LET longest == IF Len(slots) < MaxRanked THEN Len(slots) ELSE MaxRanked
    IN  {SubSeq(slots, 1, k) : k \in 0..longest}
        \cup {Reversed(SubSeq(slots, 1, k)) : k \in 0..longest}

MainNoRequest == [pc |-> "idle", slots |-> <<>>, next |-> 0]
MainNoReply == [to |-> "none", status |-> 0, slots |-> <<>>]
MainReply(to, status, slots) == [to |-> to, status |-> status, slots |-> slots]

MainInit ==
    /\ SolverIdle
    /\ RankerIdle
    /\ appointments = <<>>
    /\ clients = 0
    /\ session = [u \in Users |-> MainNoRequest]
    /\ response = [u \in Users |-> MainNoReply]
    /\ ranked_slot_rows = <<>>

\* find_slots, lines 34-108: read the store, collect available_slots, send
\* the prompt and await the answer
FindSlotsPost(u) ==
    /\ session[u].pc = "idle"
    /\ \E duration \in appointment_type_durations :
        session' = [session EXCEPT ![u] =
            [pc |-> "await", slots |-> available_slots(duration), next |-> 0]]
    /\ UNCHANGED <<appointments, clients, response, ranked_slot_rows,
                   solverVars, rankerVars, searchVars>>

\* lines 122-123: httpx.RequestError or json.JSONDecodeError
FindSlotsFails(u) ==
    /\ session[u].pc = "await"
    /\ response' = [response EXCEPT ![u] = MainReply("find", 500, <<>>)]
    /\ session' = [session EXCEPT ![u] = MainNoRequest]
    /\ UNCHANGED <<appointments, clients, ranked_slot_rows, solverVars, rankerVars, searchVars>>

\* lines 110-114: the answer is parsed; crud.clear_ranked_slots(db) commits
FindSlotsClear(u) ==
    /\ session[u].pc = "await"
    /\ \E ranked_slots_data \in RankedSlotsData(session[u].slots) :
        session' = [session EXCEPT ![u] =
            [pc |-> "persist", slots |-> ranked_slots_data, next |-> 1]]
    /\ ranked_slot_rows' = <<>>
    /\ UNCHANGED <<appointments, clients, response, solverVars, rankerVars, searchVars>>

\* lines 115-119: crud.create_ranked_slot(db, slot) commits one row
FindSlotsPersist(u) ==
    /\ session[u].pc = "persist"
    /\ session[u].next <= Len(session[u].slots)
    /\ ranked_slot_rows' = Append(ranked_slot_rows, session[u].slots[session[u].next])
    /\ session' = [session EXCEPT ![u].next = @ + 1]
    /\ UNCHANGED <<appointments, clients, response, solverVars, rankerVars, searchVars>>

\* line 121: return ranked_slots_data
FindSlotsReturn(u) ==
    /\ session[u].pc = "persist"
    /\ session[u].next > Len(session[u].slots)
    /\ response' = [response EXCEPT ![u] = MainReply("find", 200, session[u].slots)]
    /\ session' = [session EXCEPT ![u] = MainNoRequest]
    /\ UNCHANGED <<appointments, clients, ranked_slot_rows, solverVars, rankerVars, searchVars>>

MainBookingsStarted == Len(appointments)

\* book_appointment, lines 126-138: the client posts one of the slots its
\* find returned; crud.create_appointment commits the row
MainBookCreate(u) ==
    /\ session[u].pc = "idle"
    /\ response[u].to = "find"
    /\ MainBookingsStarted < MaxBookings
    /\ \E k \in DOMAIN response[u].slots :
        appointments' = Append(appointments,
            [id |-> NextId(appointments)] @@ response[u].slots[k])
    /\ session' = [session EXCEPT ![u] = [MainNoRequest EXCEPT !.pc = "created"]]
    /\ UNCHANGED <<clients, response, ranked_slot_rows, solverVars, rankerVars, searchVars>>

\* lines 139-140: crud.clear_ranked_slots(db) commits, then the answer
MainBookClear(u) ==
    /\ session[u].pc = "created"
    /\ ranked_slot_rows' = <<>>
    /\ response' = [response EXCEPT ![u] = MainReply("book", 200, <<>>)]
    /\ session' = [session EXCEPT ![u] = MainNoRequest]
    /\ UNCHANGED <<appointments, clients, solverVars, rankerVars, searchVars>>

MainNext ==
    \E u \in Users :
        \/ FindSlotsPost(u)
        \/ FindSlotsFails(u)
        \/ FindSlotsClear(u)
        \/ FindSlotsPersist(u)
        \/ FindSlotsReturn(u)
        \/ MainBookCreate(u)
        \/ MainBookClear(u)

MainSpec == MainInit /\ [][MainNext]_vars

----------------------------------------------------------------------------
(* Properties of find_available_slots *)

Returned == pc = "return"

SlotStart(sol) == ParseHM(sol.start_time)
SlotEnd(sol) == ParseHM(sol.end_time)

\* the half-open intervals [s1, e1) and [s2, e2) share an instant
Overlap(s1, e1, s2, e2) == s1 < e2 /\ s2 < e1

\* C1: every slot find_available_slots returns is conflict-free: no existing
\* appointment of the slot's vet or of the slot's room overlaps the half-open
\* interval [start, start + appointment_duration) of the slot.
C1_ReturnedSlotsConflictFree ==
    Returned =>
        \A i \in DOMAIN unique_solutions : \A j \in DOMAIN existing_appointments :
            LET sol == unique_solutions[i]
                appt == existing_appointments[j]
            IN  (appt.vet_id = sol.vet_id \/ appt.room_id = sol.room_id) =>
                    ~Overlap(SlotStart(sol), SlotStart(sol) + appointment_duration,
                             appt_start_min(appt), appt_end_min(appt))

\* a returned slot that starts when an appointment of its vet ends, on a day
\* on which its room has an appointment too
C1_Witness ==
    /\ Returned
    /\ \E i \in DOMAIN unique_solutions :
        /\ \E j \in DOMAIN existing_appointments :
            /\ existing_appointments[j].vet_id = unique_solutions[i].vet_id
            /\ appt_start_min(existing_appointments[j])
                   < appt_end_min(existing_appointments[j])
            /\ appt_end_min(existing_appointments[j]) = SlotStart(unique_solutions[i])
        /\ \E j \in DOMAIN existing_appointments :
            /\ existing_appointments[j].room_id = unique_solutions[i].room_id
            /\ appt_start_min(existing_appointments[j])
                   < appt_end_min(existing_appointments[j])

\* the grid starts of the day: 09:00, 09:15, ... with t + duration <= 17:00
GridStarts ==
    {t \in day_start_min..(day_end_min - appointment_duration) :
        (t - day_start_min) % possible_starts_step = 0}

VetFree(v_id, t) ==
    \A j \in DOMAIN existing_appointments :
        existing_appointments[j].vet_id = v_id =>
            ~Overlap(t, t + appointment_duration,
                     appt_start_min(existing_appointments[j]),
                     appt_end_min(existing_appointments[j]))

RoomFree(r_id, t) ==
    \A j \in DOMAIN existing_appointments :
        existing_appointments[j].room_id = r_id =>
            ~Overlap(t, t + appointment_duration,
                     appt_start_min(existing_appointments[j]),
                     appt_end_min(existing_appointments[j]))

WellFormedAppointments ==
    \A j \in DOMAIN existing_appointments :
        appt_start_min(existing_appointments[j]) < appt_end_min(existing_appointments[j])

\* C2: the solve returns all feasible options: for every grid start t at
\* which at least one vet and at least one room have no existing appointment
\* overlapping [t, t + duration), the returned list has a slot starting at t,
\* also on days on which the appointments of some other vet or room overlap
\* one another.  Stated for days whose appointments all have start < end.
C2_AllFeasibleStartsReturned ==
    (Returned /\ WellFormedAppointments) =>
        \A t \in GridStarts :
            ( /\ \E v_id \in Range(vet_ids) : VetFree(v_id, t)
              /\ \E r_id \in Range(room_ids) : RoomFree(r_id, t) )
            => \E i \in DOMAIN unique_solutions : SlotStart(unique_solutions[i]) = t

\* C4: every returned slot lies inside business hours and on the grid:
\* day_start_min <= start, start + duration <= day_end_min, start is
\* day_start_min plus a multiple of 15, and end = start + duration.
C4_SlotsInsideBusinessHours ==
    Returned =>
        \A i \in DOMAIN unique_solutions :
            LET start == SlotStart(unique_solutions[i])
            IN  /\ day_start_min <= start
                /\ start + appointment_duration <= day_end_min
                /\ (start - day_start_min) % possible_starts_step = 0
                /\ SlotEnd(unique_solutions[i]) = start + appointment_duration

\* the slot that ends at closing time is returned
C4_Witness ==
    /\ Returned
    /\ \E i \in DOMAIN unique_solutions :
        SlotStart(unique_solutions[i]) + appointment_duration = day_end_min

\* C5: no two slots of the returned list share (start_time, end_time).
C5_NoTwoSlotsShareTimeSpan ==
    Returned =>
        \A i, j \in DOMAIN unique_solutions :
            i # j => slot_key(unique_solutions[i]) # slot_key(unique_solutions[j])

\* the callback collected the same time span for two different vet/room
\* pairs and the result has two slots
C5_Witness ==
    /\ Returned
    /\ Len(unique_solutions) >= 2
    /\ \E i, j \in DOMAIN solutions :
        /\ i # j
        /\ slot_key(solutions[i]) = slot_key(solutions[j])
        /\ <<solutions[i].vet_id, solutions[i].room_id>>
               # <<solutions[j].vet_id, solutions[j].room_id>>

\* C6: the returned list is sorted: each slot starts strictly before the next.
C6_SortedByStart ==
    Returned =>
        \A i \in 1..(Len(unique_solutions) - 1) :
            SlotStart(unique_solutions[i]) < SlotStart(unique_solutions[i + 1])

\* the solutions were collected with a later start before an earlier one
C6_Witness ==
    /\ Returned
    /\ Len(unique_solutions) >= 2
    /\ \E i, j \in DOMAIN solutions :
        /\ i < j
        /\ SlotStart(solutions[j]) < SlotStart(solutions[i])
        /\ \A k \in 1..(i - 1) : slot_key(solutions[k]) # slot_key(solutions[i])

\* index of the first collected tuple with the time span of sol
FirstCollected(sol) ==
    CHOOSE k \in DOMAIN solutions :
        /\ slot_key(solutions[k]) = slot_key(sol)
        /\ \A m \in 1..(k - 1) : slot_key(solutions[m]) # slot_key(sol)

\* C7: first-wins dedup: every returned slot is the first collected tuple of
\* its (start, end); later tuples with that time span are discarded.
C7_FirstTupleWins ==
    Returned =>
        /\ \A i \in DOMAIN unique_solutions :
            /\ \E k \in DOMAIN solutions :
                   slot_key(solutions[k]) = slot_key(unique_solutions[i])
            /\ unique_solutions[i] = solutions[FirstCollected(unique_solutions[i])]
        /\ \A k \in DOMAIN solutions :
            \E i \in DOMAIN unique_solutions :
                slot_key(unique_solutions[i]) = slot_key(solutions[k])

\* a later tuple with the time span of a returned slot names another pair
C7_Witness ==
    /\ Returned
    /\ \E i \in DOMAIN unique_solutions : \E k \in DOMAIN solutions :
        /\ slot_key(solutions[k]) = slot_key(unique_solutions[i])
        /\ k > FirstCollected(unique_solutions[i])
        /\ solutions[k] # unique_solutions[i]

\* Scenario A: no existing bookings, one vet, one room
ScenarioA ==
    /\ vets = VetRows(1)
    /\ rooms = RoomRows(1)
    /\ existing_appointments = <<>>

\* C11: Scenario A (last grid point inclusive): with no existing bookings,
\* 1 vet and 1 room the solve returns exactly 31 slots, with the distinct
\* start times 09:00, 09:15, ..., 16:30.
C11_ScenarioA_AllGridStarts ==
    (Returned /\ ScenarioA) =>
        /\ Len(unique_solutions) = 31
        /\ \A i \in DOMAIN unique_solutions :
               /\ SlotStart(unique_solutions[i])
                      = 9 * 60 + (i - 1) * 15
               /\ SlotEnd(unique_solutions[i]) = SlotStart(unique_solutions[i]) + 30
        /\ SlotStart(unique_solutions[Len(unique_solutions)]) = 16 * 60 + 30

\* the solve of Scenario A has returned, its last slot ending at 17:00
C11_Witness ==
    /\ Returned
    /\ ScenarioA
    /\ unique_solutions # <<>>
    /\ SlotEnd(unique_solutions[Len(unique_solutions)]) = day_end_min

\* Scenario B: one booking 09:00-09:30 for the only vet
ScenarioB ==
    /\ vets = VetRows(1)
    /\ rooms # <<>>
    /\ Len(existing_appointments) = 1
    /\ existing_appointments[1].vet_id = 1
    /\ existing_appointments[1].start_time = Time(9, 0)
    /\ existing_appointments[1].end_time = Time(9, 30)

ReturnedStarts == {SlotStart(unique_solutions[i]) : i \in DOMAIN unique_solutions}

\* an appointment of vet v_id or room r_id ends when the slot at t starts, or
\* starts when it ends
Touches(v_id, r_id, t) ==
    \E j \in DOMAIN existing_appointments :
        /\ existing_appointments[j].vet_id = v_id
               \/ existing_appointments[j].room_id = r_id
        /\ \/ appt_end_min(existing_appointments[j]) = t
           \/ appt_start_min(existing_appointments[j]) = t + appointment_duration

\* C12: Scenario B (touching intervals do not conflict): with one booking
\* 09:00-09:30 on the only vet, the starts 09:00 and 09:15 are excluded and
\* every grid start from 09:30 through 16:30 remains; in general, on a day
\* the solver finds feasible, a candidate that touches a booking of its vet
\* or room and overlaps none of them is returned.
C12_ScenarioB_TouchingAllowed ==
    Returned =>
        /\ ScenarioB =>
               ReturnedStarts = {t \in GridStarts : t >= 9 * 60 + 30}
        /\ (WellFormedAppointments /\ IsSolution({})) =>
               \A t \in GridStarts :
                   \A v_id \in Range(vet_ids), r_id \in Range(room_ids) :
                       (Touches(v_id, r_id, t) /\ VetFree(v_id, t) /\ RoomFree(r_id, t))
                           => t \in ReturnedStarts

\* Scenario B has returned and its first slot starts when the booking ends
C12_Witness ==
    /\ Returned
    /\ ScenarioB
    /\ unique_solutions # <<>>
    /\ SlotStart(unique_solutions[1]) = appt_end_min(existing_appointments[1])

\* find_available_slots has ended, with a result or with an exception
Ended == pc \in {"return", "KeyError"}

\* C13: Scenario C: when the vets list or the rooms list is empty,
\* find_available_slots returns an empty list whatever existing bookings are
\* passed in, bookings that name vet and room ids included.
C13_ScenarioC_NoResources ==
    (Ended /\ (vets = <<>> \/ rooms = <<>>)) =>
        /\ Returned
        /\ unique_solutions = <<>>

\* C15: the solve fails with a validation error whenever an existing booking
\* has end <= start: for such input it reports the error and returns no
\* slot list, empty or not.
C15_MalformedBookingRejected ==
    Returned =>
        \A j \in DOMAIN existing_appointments :
            appt_start_min(existing_appointments[j])
                < appt_end_min(existing_appointments[j])

\* the (start, end) pair of a returned slot
TimeSpan(sol) == <<sol.start_time, sol.end_time>>

\* the time spans of the candidates that fit the existing appointments: a
\* function of the inputs of the call
SelectableTimeSpans == {TimeSpan(SlotDict(c)) : c \in Selectable}

\* C18: determinism of the time-span set: two runs of find_available_slots on
\* identical inputs return the same set of (start, end) pairs, whatever order
\* the solver enumerates the solutions in: the set is a function of the inputs.
C18_TimeSpanSetDeterministic ==
    Returned =>
        {TimeSpan(unique_solutions[i]) : i \in DOMAIN unique_solutions}
            = SelectableTimeSpans

\* a run that collected a later slot first and returned two or more slots
C18_Witness ==
    /\ Returned
    /\ Len(unique_solutions) >= 2
    /\ SlotStart(solutions[1]) > SlotStart(unique_solutions[1])

\* C19: the enumeration work of one solve is bounded by (#grid points) x
\* (#staff) x (#locations): the number of solutions the enumerator visits,
\* that is of calls of on_solution_callback, never exceeds that product.
C19_CallbacksBoundedBySlotProduct ==
    callbacks <= SlotProduct

\* the candidates c and d of one solution keep off each other
CandidatesCompatible(c, d) ==
    (c.vet_id = d.vet_id \/ c.room_id = d.room_id) =>
        ~Overlap(c.start_min, c.start_min + appointment_duration,
                 d.start_min, d.start_min + appointment_duration)

\* the candidate c keeps off the existing appointments of its vet and room
CandidateOffBusy(c) ==
    \A j \in DOMAIN existing_appointments :
        LET appt == existing_appointments[j]
        IN  (appt.vet_id = c.vet_id \/ appt.room_id = c.room_id) =>
                ~Overlap(c.start_min, c.start_min + appointment_duration,
                         appt_start_min(appt), appt_end_min(appt))

\* C20: every enumerated solution is simultaneously satisfiable: within one
\* solution no two selected candidates that share a vet or share a room have
\* overlapping intervals, and no selected candidate overlaps an existing
\* appointment of its vet or of its room.  on_solution_callback is only ever
\* called with a member of pending.
C20_SolutionsSimultaneouslySatisfiable ==
    \A S \in pending :
        /\ \A c, d \in S : c # d => CandidatesCompatible(c, d)
        /\ \A c \in S : CandidateOffBusy(c)

\* a solution about to be delivered that selects two candidates of one vet
\* and one room, the second starting when the first ends, on a day on which
\* that vet has an appointment
C20_Witness ==
    /\ pc = "solve"
    /\ \E S \in pending : \E c, d \in S :
        /\ c.vet_id = d.vet_id /\ c.room_id = d.room_id
        /\ d.start_min = c.start_min + appointment_duration
        /\ \E j \in DOMAIN existing_appointments :
            /\ existing_appointments[j].vet_id = c.vet_id
            /\ appt_start_min(existing_appointments[j])
                   < appt_end_min(existing_appointments[j])

----------------------------------------------------------------------------
(* Properties of rank_slots_with_llm *)

Ranked == rank_pc = "done"

\* the collaborator failed: the POST raised, or the answer is malformed
\* (not JSON, not an object, no list of integers)
RankerFailed ==
    \/ llm_response.shape \in RequestExceptions
    \/ llm_response.shape \in ResponseShapes
    \/ /\ llm_response.shape = "indices_list"
       /\ \E k \in DOMAIN llm_response.top_3_indices :
              llm_response.top_3_indices[k].type # "int"

\* C9: a ranker failure never fails the find request: whenever the ranking
\* collaborator fails (timeout, connection error, error status, malformed
\* answer of any shape), the ranking step yields the original unranked list.
C9_RankerFailureFallsBack ==
    (Ranked /\ RankerFailed) => rank_result = Returns(feasible_slots)

\* C10: whatever the LLM answers, the list rank_slots_with_llm returns is a
\* subset/reordering of its input: every returned record is an input record
\* and no input record is returned more than once.
C10_RankedIsSubsetReordering ==
    (Ranked /\ rank_result.raised = "none") =>
        /\ \A k \in DOMAIN rank_result.value :
               rank_result.value[k] \in Range(feasible_slots)
        /\ \A j, k \in DOMAIN rank_result.value :
               j # k => rank_result.value[j] # rank_result.value[k]

\* C22: for a non-empty list of feasible slots rank_slots_with_llm never
\* returns an empty list, whatever the LLM answers.
C22_RankedNeverEmptyForSlots ==
    (Ranked /\ feasible_slots # <<>> /\ rank_result.raised = "none") =>
        rank_result.value # <<>>

----------------------------------------------------------------------------
(* Properties of the booking endpoints *)

\* two rows of table 'appointments' that claim one vet or one room at
\* overlapping times of one date
DoubleBooked(a, b) ==
    /\ a.date = b.date
    /\ a.vet_id = b.vet_id \/ a.room_id = b.room_id
    /\ Overlap(ToMinutes(a.start_time), ToMinutes(a.end_time),
               ToMinutes(b.start_time), ToMinutes(b.end_time))

\* C3: booking commit rejects a slot that was concurrently taken: of two
\* book-appointment requests for the same vet (or room), date and overlapping
\* time at most one is persisted, so the store never holds two overlapping
\* appointments of one vet or one room.
C3_NoDoubleBooking ==
    \A i, j \in DOMAIN appointments :
        i # j => ~DoubleBooked(appointments[i], appointments[j])

\* C8: the solve takes the requested duration: a find-appointment request
\* for a type of d minutes runs to completion and every slot it returns has
\* end = start + d.
C8_FindUsesRequestedDuration ==
    \A u \in Users :
        response[u].to = "find" =>
            /\ response[u].status = 200
            /\ \A k \in DOMAIN response[u].slots :
                   SlotEnd(response[u].slots[k])
                      = SlotStart(response[u].slots[k]) + response[u].duration

\* C14: Scenario D: when the requested duration is longer than the business
\* window (more than day_end_min - day_start_min = 480 minutes), the result of
\* the solve is an empty slot list.
C14_ScenarioD_EmptyResult ==
    \A u \in Users :
        (response[u].to = "find" /\ response[u].duration > day_end_min - day_start_min)
            => /\ response[u].status = 200
               /\ response[u].slots = <<>>

\* C16: every busy interval the solver derives from the booking store is
\* well-formed after any sequence of committed book-appointment requests:
\* each persisted appointment has start_time < end_time within one calendar
\* day (no wrap past midnight when end is computed as start + duration).
C16_PersistedAppointmentsWellFormed ==
    \A i \in DOMAIN appointments :
        /\ ToMinutes(appointments[i].start_time) < ToMinutes(appointments[i].end_time)
        /\ ToMinutes(appointments[i].end_time)
               = ToMinutes(appointments[i].start_time) + appointments[i].duration_minutes

\* C17: find requests share no mutable state: in any interleaving of two
\* find requests (and of a booking by another user), what a request leaves
\* for its user's follow-up booking is what it would have left had it run
\* alone: the ranked slots it persisted are the ones it returned.
C17_FindLeavesOwnRankedSlots ==
    \A u \in Users :
        (session[u].pc = "idle" /\ response[u].to = "find" /\ response[u].status = 200)
            => ranked_slot_rows = response[u].slots

\* [t, t + duration) of a stored appointment, in minutes of its date
BookedStart(row) == ToMinutes(row.start_time)
BookedEnd(row) == ToMinutes(row.start_time) + row.duration_minutes

\* C21: once a booking for (vet v, room r, date d, [t, t + duration)) is
\* committed, a later solve for date d returns no slot of vet v or of room r
\* whose interval overlaps [t, t + duration).  existing_appointments holds
\* the rows of date d that were committed when the solve began.
C21_CommittedBookingBlocksLaterSlots ==
    Returned =>
        \A i \in DOMAIN existing_appointments : \A k \in DOMAIN unique_solutions :
            LET row == existing_appointments[i]
                sol == unique_solutions[k]
            IN  (row.vet_id = sol.vet_id \/ row.room_id = sol.room_id) =>
                    ~Overlap(SlotStart(sol), SlotEnd(sol),
                             BookedStart(row), BookedEnd(row))

====
